---- MODULE Spec2Model ----
(***************************************************************************)
(* PhilEarthStats: the AI seismic insights engine and its store.           *)
(*                                                                         *)
(* State: the tables engine_config, seismic_insights, insight_history and  *)
(* insight_triggers of backend/database.py, the server clock, the          *)
(* OPENROUTER_API_KEY setting, and one record per request served.          *)
(*                                                                         *)
(* Units: time in hours, magnitudes and depths and degrees in tenths,      *)
(* confidence scores and thresholds in hundredths, risk scores in tenths.  *)
(* A nullable column is <<>> (None) or <<v>>.                              *)
(***************************************************************************)
EXTENDS Integers, Sequences, FiniteSets, TLC

\* ------------------------------------------------------------------ bounds
MaxClock == 1
MaxHistory == 3
MaxVersion == 2
TickHours == 6

\* --------------------------------------------------------------- nullables
None == <<>>
Some(v) == <<v>>
IsNone(x) == x = <<>>
Val(x) == x[1]

Min2(a, b) == IF a <= b THEN a ELSE b

\* ------------------------------------------------------------------- state
VARIABLES
    engine_config,      \* table engine_config: sequence of rows
    seismic_insights,   \* table seismic_insights: set of rows, keyed by id
    next_insight_id,    \* autoincrement of seismic_insights.id
    insight_history,    \* table insight_history: sequence of rows (insertion order)
    insight_triggers,   \* table insight_triggers: sequence of rows
    now,                \* datetime.utcnow(), in hours
    api_key,            \* whether OPENROUTER_API_KEY is set
    req                 \* per request slot: where the request is, its locals, its result

dbvars == <<engine_config, seismic_insights, next_insight_id, insight_history,
            insight_triggers>>

\* ------------------------------------------------------------ EngineConfig
DefaultFrequencyHours == 6
DefaultMinConfidence == 60

\* EngineConfig(...) as get_engine_config builds it; the column defaults fill the rest
DefaultConfig ==
    [enabled |-> FALSE,
     analysis_frequency_hours |-> DefaultFrequencyHours,
     last_run_at |-> None,
     next_run_at |-> None,
     total_runs |-> 0,
     total_insights_generated |-> 0,
     ai_model |-> "x-ai/grok-4-fast",
     min_confidence_threshold |-> DefaultMinConfidence]

\* the table after get_engine_config: query.first(), or the defaults added and committed
get_engine_config(tbl) == IF tbl = <<>> THEN <<DefaultConfig>> ELSE tbl

\* the row get_engine_config returns
ConfigRow(tbl) == get_engine_config(tbl)[1]

\* the table with its first row replaced
WithRow(tbl, row) == [get_engine_config(tbl) EXCEPT ![1] = row]

\* update_engine_config's assignments, in the order of the code
update_engine_config(cfg, enabled, frequency_hours, ai_model, min_confidence, t) ==
    LET c1 == IF IsNone(enabled) THEN cfg
              ELSE [cfg EXCEPT
                      !.enabled = Val(enabled),
                      !.next_run_at =
                          IF Val(enabled) /\ IsNone(cfg.next_run_at)
                          THEN Some(t + cfg.analysis_frequency_hours)
                          ELSE cfg.next_run_at]
        c2 == IF IsNone(frequency_hours) THEN c1
              ELSE [c1 EXCEPT
                      !.analysis_frequency_hours = Val(frequency_hours),
                      !.next_run_at =
                          IF c1.enabled THEN Some(t + Val(frequency_hours))
                          ELSE c1.next_run_at]
        c3 == IF IsNone(ai_model) THEN c2 ELSE [c2 EXCEPT !.ai_model = Val(ai_model)]
        c4 == IF IsNone(min_confidence) THEN c3
              ELSE [c3 EXCEPT !.min_confidence_threshold = Val(min_confidence)]
    IN c4

\* record_engine_run's assignments
record_engine_run(cfg, t) ==
    [cfg EXCEPT
       !.last_run_at = Some(t),
       !.total_runs = cfg.total_runs + 1,
       !.next_run_at = Some(t + cfg.analysis_frequency_hours)]

\* ---------------------------------------------------------- SeismicInsight
InsightColumns ==
    {"id", "insight_type", "category", "region", "latitude", "longitude",
     "confidence_score", "severity_level", "status", "supporting_data",
     "earthquake_count", "version", "updated_at", "generated_by_model"}

\* Python values as json sees them: [kind, val] with kind int or str (val the
\* number or the text), list or tuple (val the items), dict (val the items as
\* <<key, value>> pairs). JSON text is held as the value it denotes: number,
\* string, array, object (keys are strings).
Py(kind, val) == [kind |-> kind, val |-> val]

\* json.dumps: tuples are written as arrays, dictionary keys as strings
RECURSIVE json_dumps(_)
json_dumps(v) ==
    CASE v.kind = "int" -> [kind |-> "number", val |-> v.val]
      [] v.kind = "str" -> [kind |-> "string", val |-> v.val]
      [] v.kind \in {"list", "tuple"} ->
            [kind |-> "array", val |-> [i \in 1..Len(v.val) |-> json_dumps(v.val[i])]]
      [] v.kind = "dict" ->
            [kind |-> "object",
             val |-> [i \in 1..Len(v.val) |->
                        <<IF v.val[i][1].kind = "int" THEN ToString(v.val[i][1].val)
                          ELSE v.val[i][1].val,
                          json_dumps(v.val[i][2])>>]]

\* json.loads: arrays become lists, objects dictionaries with string keys
RECURSIVE json_loads(_)
json_loads(t) ==
    CASE t.kind = "number" -> Py("int", t.val)
      [] t.kind = "string" -> Py("str", t.val)
      [] t.kind = "array" -> Py("list", [i \in 1..Len(t.val) |-> json_loads(t.val[i])])
      [] t.kind = "object" ->
            Py("dict", [i \in 1..Len(t.val) |-> <<Py("str", t.val[i][1]), json_loads(t.val[i][2])>>])

\* dict.get(key, default)
Get(d, key, default) == IF key \in DOMAIN d THEN d[key] ELSE default

\* the row with this id, as a set (empty when query.get finds nothing)
QueryGet(tbl, insight_id) == {r \in tbl : r.id = insight_id}

\* SeismicInsight.to_dict: coordinates are reported only when both are truthy
to_dict(insight) ==
    [id |-> insight.id,
     insight_type |-> insight.insight_type,
     category |-> insight.category,
     region |-> insight.region,
     coordinates |->
         IF /\ ~IsNone(insight.latitude) /\ Val(insight.latitude) # 0
            /\ ~IsNone(insight.longitude) /\ Val(insight.longitude) # 0
         THEN Some([latitude |-> Val(insight.latitude),
                    longitude |-> Val(insight.longitude)])
         ELSE None,
     confidence_score |-> insight.confidence_score,
     severity_level |-> insight.severity_level,
     status |-> insight.status,
     supporting_data |-> IF IsNone(insight.supporting_data) THEN Py("dict", <<>>)
                         ELSE json_loads(Val(insight.supporting_data)),
     earthquake_count |-> insight.earthquake_count,
     version |-> insight.version,
     updated_at |-> insight.updated_at,
     generated_by_model |-> insight.generated_by_model]

\* the SeismicInsight create_insight builds from insight_data and inserts at
\* time t (updated_at: default=datetime.utcnow)
NewInsight(id, insight_data, t) ==
    [id |-> id,
     insight_type |-> Get(insight_data, "insight_type", None),
     category |-> Get(insight_data, "category", None),
     region |-> Get(insight_data, "region", None),
     latitude |-> Get(insight_data, "latitude", None),
     longitude |-> Get(insight_data, "longitude", None),
     confidence_score |-> Get(insight_data, "confidence_score", 50),
     severity_level |-> Get(insight_data, "severity_level", "moderate"),
     status |-> "active",
     supporting_data |-> Some(json_dumps(Get(insight_data, "supporting_data", Py("dict", <<>>)))),
     earthquake_count |-> Get(insight_data, "earthquake_count", 0),
     version |-> 1,
     updated_at |-> t,
     generated_by_model |-> Get(insight_data, "generated_by_model", None)]

\* the InsightHistory row record_insight_history adds
HistoryRow(insight_id, action, previous_state, new_state, reason, triggered_by_event) ==
    [insight_id |-> insight_id,
     action |-> action,
     previous_state |-> previous_state,
     new_state |-> new_state,
     reason |-> reason,
     triggered_by_event_id |-> triggered_by_event]

\* record_insight_history: the table after the call; a failed write is swallowed
record_insight_history(hist, ok, row) == IF ok THEN Append(hist, row) ELSE hist

\* `reason or default`; a text is the tuple of its pieces, the empty text <<>>
ReasonOr(reason, default) ==
    IF IsNone(reason) \/ Val(reason) = <<>> THEN default ELSE Val(reason)

\* update_insight without the assignment insight.status = 'updated'
ApplyUpdatesKeepingStatus(insight, updates, t) ==
    LET set == [k \in DOMAIN insight |->
                   IF k \in DOMAIN updates /\ k \in InsightColumns
                   THEN IF k = "supporting_data" THEN Some(json_dumps(updates[k]))
                        ELSE updates[k]
                   ELSE insight[k]]
    IN [set EXCEPT !.version = set.version + 1,
                   !.updated_at = IF "updated_at" \in DOMAIN updates THEN set.updated_at
                                  ELSE t]

\* update_insight's loop over updates.items(), then version and status
ApplyUpdates(insight, updates, t) ==
    LET set == [k \in DOMAIN insight |->
                   IF k \in DOMAIN updates /\ k \in InsightColumns
                   THEN IF k = "supporting_data" THEN Some(json_dumps(updates[k]))
                        ELSE updates[k]
                   ELSE insight[k]]
    IN [set EXCEPT !.version = set.version + 1, !.status = "updated",
                   !.updated_at = IF "updated_at" \in DOMAIN updates THEN set.updated_at
                                  ELSE t]

\* invalidate_insight's assignment, flushed at time t: a row that changes gets
\* updated_at (onupdate=datetime.utcnow)
Invalidated(insight, t) ==
    IF insight.status = "invalidated" THEN insight
    ELSE [insight EXCEPT !.status = "invalidated", !.updated_at = t]

\* ------------------------------------------------ InsightsEngine: helpers
\* an earthquake event: [id, magnitude (nullable), depth, time (nullable),
\* latitude (nullable), longitude (nullable)]

RECURSIVE MaxFrom(_, _)
MaxFrom(s, best) ==
    IF s = <<>> THEN best
    ELSE MaxFrom(Tail(s), IF Head(s) > best THEN Head(s) ELSE best)

\* max() of a non-empty list
SeqMax(s) == MaxFrom(Tail(s), Head(s))

Magnitudes(events) == [i \in 1..Len(events) |-> Val(events[i].magnitude)]

\* a None magnitude met by sum(), max() or a comparison raises TypeError
AnyNoneMagnitude(events) == \E i \in 1..Len(events) : IsNone(events[i].magnitude)

_determine_region(lat, lon) ==
    IF IsNone(lat) \/ IsNone(lon) THEN "Unknown"
    ELSE IF Val(lat) >= 150 THEN "Luzon"
    ELSE IF Val(lat) >= 100 THEN "Visayas"
    ELSE "Mindanao"

RegionOf(e) == _determine_region(e.latitude, e.longitude)

RECURSIVE KeysFrom(_, _)
KeysFrom(events, keys) ==
    IF events = <<>> THEN keys
    ELSE KeysFrom(Tail(events),
                  IF \E j \in 1..Len(keys) : keys[j] = RegionOf(Head(events))
                  THEN keys
                  ELSE Append(keys, RegionOf(Head(events))))

\* the keys of _group_by_region's dict, in insertion order
RegionKeys(events) == KeysFrom(events, <<>>)

\* _group_by_region's list for one key
RegionEvents(events, region) ==
    LET InRegion(e) == RegionOf(e) = region
    IN SelectSeq(events, InRegion)

\* _days_ago, in hours: 999 days for a missing (or zero) timestamp
_days_ago(timestamp, t) ==
    IF IsNone(timestamp) \/ Val(timestamp) = 0 THEN 999 * 24 ELSE t - Val(timestamp)

_calculate_severity(max_magnitude, event_count) ==
    IF max_magnitude >= 65 \/ event_count >= 50 THEN "critical"
    ELSE IF max_magnitude >= 55 \/ event_count >= 30 THEN "high"
    ELSE IF max_magnitude >= 45 \/ event_count >= 15 THEN "moderate"
    ELSE "low"

\* what an analyzer gives: it raised, or its list of insight payloads
Raised == [raised |-> TRUE, insights |-> <<>>]
Returned(insights) == [raised |-> FALSE, insights |-> insights]

\* analyzer results in call order: the first exception ends the sequence
Then(a, b) ==
    IF a.raised THEN Raised
    ELSE IF b.raised THEN Raised
    ELSE Returned(a.insights \o b.insights)

\* --------------------------------------------- InsightsEngine: analyzers
\* the body of _detect_patterns' loop for one region
PatternsOfRegion(region, events, config, t) ==
    LET Recent(e) == _days_ago(e.time, t) <= 7 * 24
        Previous(e) == 7 * 24 < _days_ago(e.time, t) /\ _days_ago(e.time, t) <= 14 * 24
        recent_7d == SelectSeq(events, Recent)
        previous_7d == SelectSeq(events, Previous)
        increasing == /\ 2 * Len(recent_7d) > 3 * Len(previous_7d)
                      /\ Len(recent_7d) >= 10
        Shallow(e) == e.depth < 100
        shallow_events == SelectSeq(recent_7d, Shallow)
        activity ==
            [insight_type |-> "pattern",
             category |-> "increasing_activity",
             region |-> Some(region),
             confidence_score |-> Min2(70 + 2 * Len(recent_7d), 95),
             severity_level |->
                 _calculate_severity(SeqMax(Magnitudes(recent_7d)), Len(recent_7d)),
             earthquake_count |-> Len(recent_7d),
             generated_by_model |-> Some(config.ai_model)]
        clustering ==
            [insight_type |-> "pattern",
             category |-> "shallow_clustering",
             region |-> Some(region),
             confidence_score |-> 75,
             severity_level |-> "moderate",
             earthquake_count |-> Len(shallow_events),
             generated_by_model |-> Some(config.ai_model)]
    IN IF Len(events) < 5 THEN Returned(<<>>)
       ELSE IF increasing /\ (AnyNoneMagnitude(recent_7d) \/ Len(previous_7d) = 0)
       THEN Raised   \* TypeError in sum()/max(), ZeroDivisionError in the description
       ELSE Returned((IF increasing THEN <<activity>> ELSE <<>>)
                     \o (IF Len(shallow_events) >= 5 THEN <<clustering>> ELSE <<>>))

_detect_patterns(earthquakes, config, t) ==
    LET keys == RegionKeys(earthquakes)
        f[i \in 0..Len(keys)] ==
            IF i = 0 THEN Returned(<<>>)
            ELSE Then(f[i - 1],
                      PatternsOfRegion(keys[i], RegionEvents(earthquakes, keys[i]),
                                       config, t))
    IN f[Len(keys)]

_detect_anomalies(earthquakes, config) ==
    LET Anomaly(eq) ==
            [insight_type |-> "anomaly",
             category |-> "unusual_shallow_strong",
             region |-> Some(RegionOf(eq)),
             latitude |-> eq.latitude,
             longitude |-> eq.longitude,
             confidence_score |-> 85,
             severity_level |-> IF Val(eq.magnitude) >= 60 THEN "high" ELSE "moderate",
             earthquake_count |-> 1,
             generated_by_model |-> Some(config.ai_model)]
        f[i \in 0..Len(earthquakes)] ==
            IF i = 0 THEN <<>>
            ELSE IF Val(earthquakes[i].magnitude) >= 50 /\ earthquakes[i].depth < 50
                 THEN Append(f[i - 1], Anomaly(earthquakes[i]))
                 ELSE f[i - 1]
    IN IF AnyNoneMagnitude(earthquakes) THEN Raised   \* None >= 5.0
       ELSE Returned(f[Len(earthquakes)])

\* the body of _assess_risks' loop for one region
RiskOfRegion(region, events, config, t) ==
    LET Recent(e) == _days_ago(e.time, t) <= 14 * 24
        recent_events == SelectSeq(events, Recent)
        Significant(e) == Val(e.magnitude) >= 45
        Shallow(e) == e.depth < 300
        significant_count == Len(SelectSeq(recent_events, Significant))
        shallow_count == Len(SelectSeq(recent_events, Shallow))
        max_mag == SeqMax(Magnitudes(recent_events))
        risk_score == significant_count * 150 + shallow_count * 50
                      + max_mag * 10 + Len(recent_events) * 20
        risk_level == IF risk_score >= 800 THEN "critical"
                      ELSE IF risk_score >= 500 THEN "high"
                      ELSE IF risk_score >= 250 THEN "moderate"
                      ELSE "low"
        risk ==
            [insight_type |-> "risk",
             category |-> "regional_risk_assessment",
             region |-> Some(region),
             confidence_score |-> 70,
             severity_level |-> risk_level,
             earthquake_count |-> Len(recent_events),
             generated_by_model |-> Some(config.ai_model)]
    IN IF recent_events = <<>> THEN Returned(<<>>)
       ELSE IF AnyNoneMagnitude(recent_events) THEN Raised   \* None >= 4.5
       ELSE Returned(IF risk_level \in {"high", "critical"} THEN <<risk>> ELSE <<>>)

_assess_risks(earthquakes, config, t) ==
    LET keys == RegionKeys(earthquakes)
        f[i \in 0..Len(keys)] ==
            IF i = 0 THEN Returned(<<>>)
            ELSE Then(f[i - 1],
                      RiskOfRegion(keys[i], RegionEvents(earthquakes, keys[i]),
                                   config, t))
    IN f[Len(keys)]

_find_correlations(earthquakes, config) ==
    LET Night(eq) == LET hour == Val(eq.time) % 24 IN hour < 6 \/ hour >= 20
        night == Len(SelectSeq(earthquakes, Night))
        total == Len(earthquakes)
        temporal ==
            [insight_type |-> "correlation",
             category |-> "temporal_distribution",
             region |-> Some("Philippines"),
             confidence_score |-> 55,
             severity_level |-> "low",
             earthquake_count |-> total,
             generated_by_model |-> Some(config.ai_model)]
    IN IF total < 20 THEN Returned(<<>>)
       ELSE IF \E i \in 1..total : IsNone(earthquakes[i].time) THEN Raised  \* None / 1000
       ELSE Returned(IF night * 100 > 60 * total \/ night * 100 < 40 * total
                     THEN <<temporal>> ELSE <<>>)

\* all_insights of run_analysis, or the exception of the first analyzer that raises
Analyze(earthquakes, config, t) ==
    Then(Then(Then(_detect_patterns(earthquakes, config, t),
                   _detect_anomalies(earthquakes, config)),
              _assess_risks(earthquakes, config, t)),
         _find_correlations(earthquakes, config))

\* ------------------------------------------------------------ input feeds
Epoch == 24 * 365

Event(id, magnitude, depth, time, latitude, longitude) ==
    [id |-> id, magnitude |-> magnitude, depth |-> depth, time |-> time,
     latitude |-> latitude, longitude |-> longitude]

Repeat(n, e) == [i \in 1..n |-> [e EXCEPT !.id = e.id + i]]

\* 22:00 of a day more than two weeks before t
OldNight(t) == LET base == t - 16 * 24 IN base - (base % 24) + 22

Feed(name, t) ==
    CASE name = "empty" -> <<>>
      [] name = "strong_shallow" ->
            <<Event(100, Some(52), 30, Some(t - 1), Some(130), Some(1230))>>
      [] name = "old_night" ->
            Repeat(20, Event(0, Some(30), 500, Some(OldNight(t)), Some(80), Some(1260)))
      [] name = "mixed" ->
            Repeat(20, Event(0, Some(30), 500, Some(OldNight(t)), Some(80), Some(1260)))
            \o <<Event(100, Some(48), 1000, Some(t - 1), Some(130), Some(1230))>>
      [] name = "null_magnitude" ->
            <<Event(200, None, 100, Some(t - 2), Some(160), Some(1210))>>
      [] name = "swarm" ->
            Repeat(12, Event(300, Some(30), 200, Some(t - 3), Some(160), Some(1210)))

is_in_philippines(lat, lon) == 45 <= lat /\ lat <= 215 /\ 1160 <= lon /\ lon <= 1270

\* fetch_earthquakes of trigger_insights_run: the filter on the features of the feeds
fetch_earthquakes(features) ==
    LET Keep(f) == /\ is_in_philippines(Val(f.latitude), Val(f.longitude))
                   /\ ~IsNone(f.magnitude)
                   /\ Val(f.magnitude) >= 25
    IN SelectSeq(features, Keep)

\* ---------------------------------------------------------------- requests
\* Each slot serves one request: idle -> (fetch ->) store -> done.
Procs == {1, 2}

\* the locals of a request and, once done, its result; persisted and
\* create_failed say what its create_insight calls did
Idle ==
    [pc |-> "idle", cands |-> <<>>, threshold |-> None,
     insights_generated |-> 0, earthquakes_analyzed |-> 0,
     persisted |-> 0, create_failed |-> FALSE,
     success |-> FALSE, error |-> None]

\* the request r returning a result
Done(r, success, error) ==
    [r EXCEPT !.pc = "done", !.cands = <<>>, !.threshold = None,
              !.success = success, !.error = error]

\* should_run, given the row get_engine_config returned (None when it failed)
should_run(config, key, t) ==
    IF IsNone(config) \/ ~Val(config).enabled THEN <<FALSE, "Engine is disabled">>
    ELSE IF ~key THEN <<FALSE, "No API key configured">>
    ELSE IF ~IsNone(Val(config).next_run_at) /\ t < Val(Val(config).next_run_at)
         THEN <<FALSE, "Next run scheduled">>
    ELSE <<TRUE, "Ready to run">>

\* the scheduling columns as a reader sees them (the defaults when no row exists yet)
Schedule(tbl) ==
    [last_run_at |-> ConfigRow(tbl).last_run_at,
     next_run_at |-> ConfigRow(tbl).next_run_at,
     total_runs |-> ConfigRow(tbl).total_runs]

vars == <<engine_config, seismic_insights, next_insight_id, insight_history,
          insight_triggers, now, api_key, req>>

Init ==
    /\ engine_config = <<>>
    /\ seismic_insights = {}
    /\ next_insight_id = 1
    /\ insight_history = <<>>
    /\ insight_triggers = <<>>
    /\ now = Epoch
    /\ api_key \in BOOLEAN
    /\ req = [p \in Procs |-> Idle]

\* ------------------------------------------------------------------ clock
Tick ==
    /\ now < Epoch + MaxClock * TickHours
    /\ now' = now + TickHours
    /\ UNCHANGED <<dbvars, api_key, req>>

\* ----------------------------------------------- DatabaseService operations
\* In every action, db is the set of outcomes a store operation can have:
\* TRUE (it succeeds) and, where the store may fail, FALSE (it raises).

\* DatabaseService.update_engine_config (POST /api/insights/config)
UpdateEngineConfig(enabled, frequency_hours, min_confidence, db) ==
    /\ \E ok \in db :
         engine_config' =
             IF ok
             THEN WithRow(engine_config,
                          update_engine_config(ConfigRow(engine_config), enabled,
                                               frequency_hours, None, min_confidence, now))
             ELSE engine_config
    /\ UNCHANGED <<seismic_insights, next_insight_id, insight_history, insight_triggers,
                   now, api_key, req>>

UpdatedReason == <<"Insight updated based on new data">>
InvalidatedReason == <<"Pattern no longer detected in recent data">>
CreatedReason(model) == <<"Insight created by", model>>

\* DatabaseService.update_insight
UpdateInsight(insight_id, updates, reason, db) ==
    /\ Len(insight_history) < MaxHistory
    /\ \E commit_ok, history_ok \in db :
         LET found == QueryGet(seismic_insights, insight_id) IN
         IF found = {} \/ ~commit_ok
         THEN UNCHANGED <<seismic_insights, insight_history>>
         ELSE LET insight == CHOOSE r \in found : TRUE
                  updated == ApplyUpdates(insight, updates, now)
              IN /\ updated.version <= MaxVersion
                 /\ seismic_insights' = (seismic_insights \ {insight}) \cup {updated}
                 /\ insight_history' =
                        record_insight_history(
                            insight_history, history_ok,
                            HistoryRow(insight_id, "updated", Some(to_dict(insight)),
                                       Some(to_dict(updated)),
                                       ReasonOr(reason, UpdatedReason), None))
    /\ UNCHANGED <<engine_config, next_insight_id, insight_triggers, now, api_key, req>>

\* DatabaseService.invalidate_insight (DELETE /api/insights/<id>)
InvalidateInsight(insight_id, reason, db) ==
    /\ Len(insight_history) < MaxHistory
    /\ \E commit_ok, history_ok \in db :
         LET found == QueryGet(seismic_insights, insight_id) IN
         IF found = {} \/ ~commit_ok
         THEN UNCHANGED <<seismic_insights, insight_history>>
         ELSE LET insight == CHOOSE r \in found : TRUE
                  invalidated == Invalidated(insight, now)
              IN /\ seismic_insights' = (seismic_insights \ {insight}) \cup {invalidated}
                 /\ insight_history' =
                        record_insight_history(
                            insight_history, history_ok,
                            HistoryRow(insight_id, "invalidated", Some(to_dict(insight)),
                                       Some(to_dict(invalidated)),
                                       ReasonOr(reason, InvalidatedReason), None))
    /\ UNCHANGED <<engine_config, next_insight_id, insight_triggers, now, api_key, req>>

\* ------------------------------------------------------ InsightsEngine runs
\* an except branch that records the run all the same
OnExceptionRecords(tbl, t) == WithRow(tbl, record_engine_run(ConfigRow(tbl), t))

\* a loop that stores every candidate
AdmitAll(insight_data, threshold) == TRUE

\* the store after run_analysis' except branch: it returns the error, writes nothing
OnException(tbl, t) == tbl

\* the test of run_analysis' loop: insight_data.get('confidence_score', 0) >= threshold
Admit(insight_data, threshold) == Get(insight_data, "confidence_score", 0) >= threshold

\* the threshold the loop of slot p compares with: the value its config object holds,
\* reloaded from the store after a commit or rollback expired it
ThresholdSeen(r, tbl) ==
    IF IsNone(r.threshold) THEN ConfigRow(tbl).min_confidence_threshold
    ELSE Val(r.threshold)

SetReq(p, r) == req' = [req EXCEPT ![p] = r]

\* run_analysis up to the end of the analyzers, for the request r of slot p
Begin(p, r, earthquakes, db) ==
    \E config_ok \in db :
        IF ~config_ok
        THEN /\ SetReq(p, Done(r, FALSE, Some("No engine configuration")))
             /\ UNCHANGED engine_config
        ELSE LET tbl == get_engine_config(engine_config)
                 analysis == Analyze(earthquakes, ConfigRow(tbl), now)
             IN IF analysis.raised
                THEN /\ engine_config' = OnException(tbl, now)
                     /\ SetReq(p, Done(r, FALSE, Some("analyzer raised")))
                ELSE /\ engine_config' = tbl
                     /\ SetReq(p, [r EXCEPT
                                     !.pc = "store",
                                     !.cands = analysis.insights,
                                     !.threshold = Some(ConfigRow(tbl).min_confidence_threshold),
                                     !.earthquakes_analyzed = Len(earthquakes)])

\* InsightsEngine.run_analysis called on a list of events
RunAnalysis(p, feed, db) ==
    /\ req[p].pc = "idle"
    /\ Begin(p, req[p], Feed(feed, now), db)
    /\ UNCHANGED <<seismic_insights, next_insight_id, insight_history, insight_triggers,
                   now, api_key>>

\* InsightsEngine.trigger_manual_run
TriggerManualRun(p, feed, db) ==
    /\ req[p].pc = "idle"
    /\ \E config_ok \in db :
          IF ~config_ok
          THEN /\ SetReq(p, Done(req[p], FALSE, Some("Engine not configured")))
               /\ UNCHANGED engine_config
          ELSE IF ~api_key
          THEN /\ SetReq(p, Done(req[p], FALSE, Some("No API key configured")))
               /\ engine_config' = get_engine_config(engine_config)
          ELSE Begin(p, req[p], Feed(feed, now), db)
    /\ UNCHANGED <<seismic_insights, next_insight_id, insight_history, insight_triggers,
                   now, api_key>>

\* trigger_insights_run (POST /api/insights/run) up to the fetch of the feeds
TriggerInsightsRun(p, force, db) ==
    /\ req[p].pc = "idle"
    /\ \E config_ok \in db :
          LET tbl == IF config_ok THEN get_engine_config(engine_config) ELSE engine_config
              can_run == should_run(IF config_ok THEN Some(ConfigRow(tbl)) ELSE None,
                                    api_key, now)
          IN /\ engine_config' = tbl
             /\ IF ~can_run[1] /\ ~force
                THEN SetReq(p, Done(req[p], FALSE, Some(can_run[2])))
                ELSE SetReq(p, [req[p] EXCEPT !.pc = "fetch"])
    /\ UNCHANGED <<seismic_insights, next_insight_id, insight_history, insight_triggers,
                   now, api_key>>

\* trigger_insights_run from fetch_earthquakes() into run_analysis
FetchAndRun(p, feed, db) ==
    /\ req[p].pc = "fetch"
    /\ Begin(p, req[p], fetch_earthquakes(Feed(feed, now)), db)
    /\ UNCHANGED <<seismic_insights, next_insight_id, insight_history, insight_triggers,
                   now, api_key>>

\* one iteration of run_analysis' loop over all_insights, create_insight included
StoreInsight(p, db) ==
    LET r == req[p]
        insight_data == Head(r.cands)
    IN
    /\ r.pc = "store"
    /\ r.cands # <<>>
    /\ \E read_ok \in db :
         IF IsNone(r.threshold) /\ ~read_ok
         THEN \* the reload of the expired config row fails: the exception ends the run
              /\ engine_config' = OnException(engine_config, now)
              /\ SetReq(p, Done(r, FALSE, Some("store raised")))
              /\ UNCHANGED <<seismic_insights, next_insight_id, insight_history>>
         ELSE
         IF ~Admit(insight_data, ThresholdSeen(r, engine_config))
         THEN /\ SetReq(p, [r EXCEPT !.cands = Tail(r.cands),
                                     !.threshold = Some(ThresholdSeen(r, engine_config))])
              /\ UNCHANGED <<engine_config, seismic_insights, next_insight_id,
                             insight_history>>
         ELSE
         \* DatabaseService.create_insight
         \E insight_ok, history_ok, config_ok, counter_ok \in db :
              LET insight == NewInsight(next_insight_id, insight_data, now)
                  config == ConfigRow(engine_config)
                  returned_id == insight_ok /\ (~config_ok \/ counter_ok)
              IN
              /\ IF insight_ok
                 THEN /\ seismic_insights' = seismic_insights \cup {insight}
                      /\ next_insight_id' = next_insight_id + 1
                      /\ insight_history' =
                             record_insight_history(
                                 insight_history, history_ok,
                                 HistoryRow(insight.id, "created", None,
                                            Some(to_dict(insight)),
                                            CreatedReason(Get(insight_data,
                                                              "generated_by_model",
                                                              Some("AI"))),
                                            None))
                      /\ engine_config' =
                             IF config_ok /\ counter_ok
                             THEN WithRow(engine_config,
                                          [config EXCEPT !.total_insights_generated =
                                               config.total_insights_generated + 1])
                             ELSE IF config_ok THEN get_engine_config(engine_config)
                             ELSE engine_config
                 ELSE UNCHANGED <<engine_config, seismic_insights, next_insight_id,
                                  insight_history>>
              /\ SetReq(p, [r EXCEPT
                              !.cands = Tail(r.cands),
                              !.threshold = None,
                              !.insights_generated =
                                  IF returned_id THEN r.insights_generated + 1
                                  ELSE r.insights_generated,
                              !.persisted =
                                  IF insight_ok THEN r.persisted + 1 ELSE r.persisted,
                              !.create_failed = r.create_failed \/ ~returned_id])
    /\ UNCHANGED <<insight_triggers, now, api_key>>

\* the InsightTrigger row run_analysis logs
TriggerRow(r) ==
    [trigger_type |-> "scheduled_analysis",
     earthquakes_analyzed |-> r.earthquakes_analyzed,
     insights_generated |-> r.insights_generated]

\* run_analysis after the loop: record_engine_run, create_insight_trigger, the result
FinishRun(p, db) ==
    LET r == req[p] IN
    /\ r.pc = "store"
    /\ r.cands = <<>>
    /\ \E record_ok, trigger_ok \in db :
         /\ engine_config' =
                IF record_ok
                THEN WithRow(engine_config,
                             record_engine_run(ConfigRow(engine_config), now))
                ELSE engine_config
         /\ insight_triggers' =
                IF trigger_ok THEN Append(insight_triggers, TriggerRow(r))
                ELSE insight_triggers
    /\ SetReq(p, Done(r, TRUE, None))
    /\ UNCHANGED <<seismic_insights, next_insight_id, insight_history, now, api_key>>

\* ------------------------------------------------------------------ specs
\* slot p takes the next request: the slots before it have answered theirs and
\* no request is being served
Turn(p) == \A q \in Procs \ {p} : IF q < p THEN req[q].pc = "done" ELSE req[q].pc = "idle"

Feeds == {"strong_shallow", "mixed", "null_magnitude", "swarm"}
EnabledInputs == {None, Some(TRUE), Some(FALSE)}
ConfidenceInputs == {None, Some(50), Some(80)}

\* The engine serving requests one after the other, the configuration changing
\* under it, over a store that answers
Next ==
    \/ Tick
    \/ \E e \in EnabledInputs, c \in ConfidenceInputs :
          UpdateEngineConfig(e, None, c, {TRUE})
    \/ \E p \in Procs, feed \in Feeds : Turn(p) /\ RunAnalysis(p, feed, {TRUE})
    \/ \E p \in Procs, feed \in Feeds : Turn(p) /\ TriggerManualRun(p, feed, {TRUE})
    \/ \E p \in Procs, force \in BOOLEAN :
          Turn(p) /\ TriggerInsightsRun(p, force, {TRUE})
    \/ \E p \in Procs, feed \in Feeds : FetchAndRun(p, feed, {TRUE})
    \/ \E p \in Procs : StoreInsight(p, {TRUE})
    \/ \E p \in Procs : FinishRun(p, {TRUE})

Spec == Init /\ [][Next]_vars

\* One request served over a store whose every operation may fail
NextFaults ==
    \/ \E e \in {Some(TRUE)}, c \in ConfidenceInputs :
          UpdateEngineConfig(e, None, c, BOOLEAN)
    \/ \E feed \in Feeds : RunAnalysis(1, feed, BOOLEAN)
    \/ \E force \in BOOLEAN : TriggerInsightsRun(1, force, BOOLEAN)
    \/ \E feed \in Feeds : FetchAndRun(1, feed, BOOLEAN)
    \/ StoreInsight(1, BOOLEAN)
    \/ FinishRun(1, BOOLEAN)

SpecFaults == Init /\ [][NextFaults]_vars

\* The life of the stored insights: a run creates them, update_insight and
\* invalidate_insight change them, the history writes may fail
StoredIds == {r.id : r \in seismic_insights} \cup {next_insight_id}
NoUpdates == [k \in {} |-> 0]
UpdatesInputs == {NoUpdates, [status |-> "evolved"]}
ReasonInputs == {None, Some(<<"superseded">>)}

NextLifecycle ==
    \/ RunAnalysis(1, "strong_shallow", {TRUE})
    \/ StoreInsight(1, BOOLEAN)
    \/ FinishRun(1, {TRUE})
    \/ \E i \in StoredIds, u \in UpdatesInputs : UpdateInsight(i, u, None, BOOLEAN)
    \/ \E i \in StoredIds, r \in ReasonInputs : InvalidateInsight(i, r, BOOLEAN)

SpecLifecycle == Init /\ [][NextLifecycle]_vars

\* Two unforced requests to POST /api/insights/run served at the same time
NextConcurrent ==
    \/ Tick
    \/ UpdateEngineConfig(Some(TRUE), None, None, {TRUE})
    \/ \E p \in Procs : TriggerInsightsRun(p, FALSE, {TRUE})
    \/ \E p \in Procs, feed \in {"strong_shallow", "mixed"} : FetchAndRun(p, feed, {TRUE})
    \/ \E p \in Procs : StoreInsight(p, {TRUE})
    \/ \E p \in Procs : FinishRun(p, {TRUE})

SpecConcurrent == Init /\ [][NextConcurrent]_vars

\* ----------------------------------------------------------------- claims
\* the history records of one insight, in the order they were written
HistoryOf(insight_id) ==
    SelectSeq(insight_history, LAMBDA h : h.insight_id = insight_id)

\* C1: once an insight's status is 'invalidated', no update_insight or
\* invalidate_insight call changes it to anything else.
InvalidatedIsTerminal ==
    [][\A i \in seismic_insights :
          i.status = "invalidated" =>
              \A j \in seismic_insights' : j.id = i.id => j.status = "invalidated"]_vars

\* C2: every committed state of an insight (created, updated, invalidated) has its
\* history record: the last record of the insight carries the state it is in now,
\* whether or not the history write succeeded.
EveryTransitionRecorded ==
    \A i \in seismic_insights :
        /\ HistoryOf(i.id) # <<>>
        /\ LET last == HistoryOf(i.id)[Len(HistoryOf(i.id))]
           IN /\ last.new_state = Some(to_dict(i))
              /\ last.reason # <<>>

\* C10: an insight a run persists starts as active, version 1, and right after its
\* creation exactly one 'created' history record exists for it.
CreatedOnceAsActive ==
    [][\A i \in seismic_insights' :
          (\A j \in seismic_insights : j.id # i.id) =>
              /\ i.status = "active"
              /\ i.version = 1
              /\ Len(SelectSeq(insight_history',
                               LAMBDA h : h.insight_id = i.id /\ h.action = "created")) = 1]_vars

\* the request was answered with a not-run reason: no analyzer ran for it
NotRun(r) ==
    /\ r.pc = "done"
    /\ ~r.success
    /\ r.error \notin {None, Some("analyzer raised"), Some("store raised")}

\* what a run writes: insights, history, triggers, the schedule
RunEffects(tbl, insights, hist, triggers) == <<Schedule(tbl), insights, hist, triggers>>

\* C3: a candidate below the threshold the run holds is neither persisted nor
\* counted, and every insight a run persists has a confidence at or above it.
ConfidenceGate ==
    [][\A p \in Procs :
          (req[p].pc = "store" /\ req[p].cands # <<>> /\ req'[p] # req[p]) =>
              LET confidence == Head(req[p].cands).confidence_score
                  threshold == ThresholdSeen(req[p], engine_config)
              IN /\ confidence < threshold =>
                     /\ seismic_insights' = seismic_insights
                     /\ req'[p].pc = "done"
                        \/ req'[p].insights_generated = req[p].insights_generated
                 /\ \A i \in seismic_insights' \ seismic_insights :
                        i.confidence_score >= threshold
                 /\ req'[p].insights_generated <= req'[p].persisted]_vars

\* C3's case: a run over 21 events found a risk (0.70) and a correlation (0.55);
\* under the threshold 0.60 it stored and counted the first only
DiscardedBelowThreshold ==
    \E p \in Procs :
        /\ req[p].pc = "done" /\ req[p].success
        /\ req[p].earthquakes_analyzed = 21
        /\ req[p].insights_generated = 1 /\ req[p].persisted = 1
        /\ ConfigRow(engine_config).min_confidence_threshold = DefaultMinConfidence
        /\ \A i \in seismic_insights : i.insight_type # "correlation"

\* C4: while the engine is disabled or has no API key, a run request is answered
\* not-run with a reason and writes nothing.
DisabledOrUnkeyedRefused ==
    [][\A p \in Procs :
          (/\ req[p].pc = "idle" /\ req'[p].pc # "idle"
           /\ ~ConfigRow(engine_config).enabled \/ ~api_key) =>
              /\ NotRun(req'[p])
              /\ RunEffects(engine_config', seismic_insights', insight_history',
                            insight_triggers')
                 = RunEffects(engine_config, seismic_insights, insight_history,
                              insight_triggers)]_vars

\* C5: a second run_analysis call inside the frequency window of a first one
\* (enabled, keyed, now < next_run_at) runs no analyzer, persists nothing and is
\* answered not-run.
SecondCallInWindowNotRun ==
    [][\A p \in Procs, feed \in Feeds :
          (/\ \E q \in Procs \ {p} : req[q].pc = "done" /\ req[q].success
           /\ ConfigRow(engine_config).enabled /\ api_key
           /\ ~IsNone(ConfigRow(engine_config).next_run_at)
           /\ now < Val(ConfigRow(engine_config).next_run_at)
           /\ RunAnalysis(p, feed, {TRUE})) =>
              /\ NotRun(req'[p])
              /\ seismic_insights' = seismic_insights]_vars

\* C6: of two unforced requests that arrive when the engine is due, at most one
\* is inside run_analysis at a time, and without time passing total_runs advances
\* by one only.
SingleFlight ==
    /\ Cardinality({p \in Procs : req[p].pc = "store"}) <= 1
    /\ now = Epoch => ConfigRow(engine_config).total_runs <= 1

\* the analyzers raise on these events under the stored configuration
Raises(earthquakes) ==
    Analyze(earthquakes, ConfigRow(get_engine_config(engine_config)), now).raised

\* C7: when an analyzer raises, the run is answered non-success, last_run_at,
\* next_run_at and total_runs are as before, and should_run answers as before.
AnalyzerFailureKeepsSchedule ==
    [][\A p \in Procs, feed \in Feeds :
          (/\ req'[p] # req[p]
           /\ \/ RunAnalysis(p, feed, {TRUE}) /\ Raises(Feed(feed, now))
              \/ TriggerManualRun(p, feed, {TRUE}) /\ api_key /\ Raises(Feed(feed, now))
              \/ FetchAndRun(p, feed, {TRUE}) /\ Raises(fetch_earthquakes(Feed(feed, now)))) =>
              /\ req'[p].pc = "done" /\ ~req'[p].success
              /\ Schedule(engine_config') = Schedule(engine_config)
              /\ should_run(Some(ConfigRow(engine_config')), api_key', now')
                 = should_run(Some(ConfigRow(engine_config)), api_key, now)]_vars

\* C7's case: after a recorded run, a second run's analyzer raised
RetryAfterAnalyzerFailure ==
    \E p \in Procs :
        /\ req[p].pc = "done" /\ req[p].error = Some("analyzer raised")
        /\ ConfigRow(engine_config).enabled
        /\ ConfigRow(engine_config).total_runs = 1
        /\ ~IsNone(ConfigRow(engine_config).next_run_at)

\* C8: a run in which create_insight failed ends reported as failed, with no
\* scheduling update.
CreateFailureAbortsRun ==
    [][\A p \in Procs :
          (req[p].pc = "store" /\ req[p].create_failed /\ req'[p].pc = "done") =>
              /\ ~req'[p].success /\ ~IsNone(req'[p].error)
              /\ Schedule(engine_config') = Schedule(engine_config)]_vars

\* C9: a run answered non-success has persisted no insight.
FailedRunPersistsNothing ==
    \A p \in Procs :
        (req[p].pc = "done" /\ ~req[p].success) =>
            /\ req[p].persisted = 0
            /\ seismic_insights = {}

\* C11: a run that reports success has raised total_runs by one, set last_run_at to
\* the run time and next_run_at to the run time plus the configured frequency.
SuccessRecordsRun ==
    [][\A p \in Procs :
          (req[p].pc = "store" /\ req'[p].pc = "done" /\ req'[p].success) =>
              LET before == ConfigRow(engine_config)
                  after == ConfigRow(engine_config')
              IN /\ after.total_runs = before.total_runs + 1
                 /\ after.last_run_at = Some(now)
                 /\ after.next_run_at = Some(now + after.analysis_frequency_hours)]_vars

\* ---------------------------------------------------------------- versions
\* update_insight with caller-supplied dictionaries that name the version column
VersionUpdates == {NoUpdates, [version |-> 0], [severity_level |-> "high"]}

NextVersions ==
    \/ RunAnalysis(1, "strong_shallow", {TRUE})
    \/ StoreInsight(1, {TRUE})
    \/ FinishRun(1, {TRUE})
    \/ \E i \in StoredIds, u \in VersionUpdates : UpdateInsight(i, u, None, {TRUE})
    \/ \E i \in StoredIds : InvalidateInsight(i, None, {TRUE})

SpecVersions == Init /\ [][NextVersions]_vars

\* C12: an insight's version never decreases, and a successful update_insight
\* leaves it strictly greater than before the call.
VersionMonotone ==
    [][\A i \in seismic_insights, j \in seismic_insights' :
          j.id = i.id =>
              /\ j.version >= i.version
              /\ (/\ Len(insight_history') = Len(insight_history) + 1
                  /\ insight_history'[Len(insight_history')].action = "updated"
                  /\ insight_history'[Len(insight_history')].insight_id = i.id)
                 => j.version > i.version]_vars

\* ------------------------------------------------- requests served at once
\* Two requests in two sessions: what one reads may be stale when it commits.

\* update_insight up to the end of its assignments: the row this session loaded
LoadInsight(p, insight_id, updates) ==
    /\ req[p].pc \in {"idle", "done"}
    /\ LET found == QueryGet(seismic_insights, insight_id) IN
       IF found = {}
       THEN SetReq(p, [pc |-> "updated", insight_id |-> insight_id,
                       updates |-> updates, returned |-> FALSE])
       ELSE SetReq(p, [pc |-> "update", insight_id |-> insight_id,
                       updates |-> updates, loaded |-> CHOOSE r \in found : TRUE])
    /\ UNCHANGED <<dbvars, now, api_key>>

\* the UPDATE a commit emits: the columns this session changed, written over the
\* row as it is stored now
Flushed(current, loaded, changed) ==
    [k \in DOMAIN current |-> IF changed[k] # loaded[k] THEN changed[k] ELSE current[k]]

\* update_insight from db.session.commit() to its return
CommitUpdate(p) ==
    LET r == req[p] IN
    /\ r.pc = "update"
    /\ LET current == CHOOSE i \in seismic_insights : i.id = r.insight_id
           written == Flushed(current, r.loaded, ApplyUpdates(r.loaded, r.updates, now))
       IN /\ seismic_insights' = (seismic_insights \ {current}) \cup {written}
          /\ insight_history' =
                 record_insight_history(
                     insight_history, TRUE,
                     HistoryRow(r.insight_id, "updated", Some(to_dict(r.loaded)),
                                Some(to_dict(written)), UpdatedReason, None))
    /\ SetReq(p, [pc |-> "updated", insight_id |-> r.insight_id,
                  updates |-> r.updates, returned |-> TRUE])
    /\ UNCHANGED <<engine_config, next_insight_id, insight_triggers, now, api_key>>

\* get_engine_config: EngineConfig.query.first()
QueryFirst(p) ==
    /\ req[p].pc = "idle"
    /\ SetReq(p, [pc |-> IF engine_config = <<>> THEN "config" ELSE "configured"])
    /\ UNCHANGED <<dbvars, now, api_key>>

\* get_engine_config: the default row added and committed when first() found none
CreateDefault(p) ==
    /\ req[p].pc = "config"
    /\ engine_config' = Append(engine_config, DefaultConfig)
    /\ SetReq(p, [pc |-> "configured"])
    /\ UNCHANGED <<seismic_insights, next_insight_id, insight_history, insight_triggers,
                   now, api_key>>

RaceUpdates == {[severity_level |-> "high"], [confidence_score |-> 90]}

NextRaces ==
    \/ RunAnalysis(1, "strong_shallow", {TRUE})
    \/ StoreInsight(1, {TRUE})
    \/ FinishRun(1, {TRUE})
    \/ \E p \in Procs, i \in StoredIds, u \in RaceUpdates : LoadInsight(p, i, u)
    \/ \E p \in Procs : CommitUpdate(p)
    \/ \E p \in Procs : QueryFirst(p)
    \/ \E p \in Procs : CreateDefault(p)

SpecRaces == Init /\ [][NextRaces]_vars

\* the update_insight calls on this insight that returned True
Accepted(insight_id) ==
    {p \in Procs : /\ req[p].pc = "updated" /\ req[p].returned
                   /\ req[p].insight_id = insight_id}

\* C13: concurrent update_insight calls on one insight act as a serial execution:
\* every accepted call raised the version by one, its updates are stored, and the
\* history snapshots of the insight chain; no update is lost.
UpdatesSerialized ==
    \A i \in seismic_insights :
        /\ i.version = 1 + Cardinality(Accepted(i.id))
        /\ \A p \in Accepted(i.id) : \A k \in DOMAIN req[p].updates :
               i[k] = req[p].updates[k]
        /\ \A n \in 2..Len(HistoryOf(i.id)) :
               HistoryOf(i.id)[n].previous_state = HistoryOf(i.id)[n - 1].new_state

\* C14: at most one EngineConfig row exists, whatever the interleaving of the
\* first accesses, and the row the first access creates holds the defaults.
OneEngineConfig ==
    /\ Len(engine_config) <= 1
    /\ \A p \in Procs : req[p].pc = "configured" => engine_config # <<>>
    /\ (engine_config # <<>> /\ \A p \in Procs : req[p].pc \in {"idle", "config", "configured"})
          => engine_config[1] = DefaultConfig

\* ----------------------------------------------------------- configuration
\* POST /api/insights/config with values inside and outside the documented ranges
FrequencyInputs == {None, Some(0), Some(12)}
ThresholdInputs == {None, Some(80), Some(150)}

NextConfig ==
    \/ Tick
    \/ \E e \in EnabledInputs, f \in FrequencyInputs, c \in ThresholdInputs :
          UpdateEngineConfig(e, f, c, BOOLEAN)

SpecConfig == Init /\ [][NextConfig]_vars

\* C15: the stored configuration always has analysis_frequency_hours >= 1 and
\* 0 <= min_confidence_threshold <= 1; an out-of-range value is never stored.
ConfigInRange ==
    /\ ConfigRow(engine_config).analysis_frequency_hours >= 1
    /\ ConfigRow(engine_config).min_confidence_threshold >= 0
    /\ ConfigRow(engine_config).min_confidence_threshold <= 100

\* ------------------------------------------------- AI analysis: clustering
\* Events of the analysis endpoint: magnitude (nullable, tenths), latitude and
\* longitude (tenths of a degree). Indices count from 1 where Python counts from 0.

\* classify_region of the analysis endpoint (the longitude is not looked at)
classify_region(latitude, longitude) ==
    IF latitude >= 140 THEN "Luzon"
    ELSE IF latitude >= 95 THEN "Visayas"
    ELSE "Mindanao"

Indices(n) == [k \in 1..n |-> k]

\* dist <= eps for dist = sqrt(dlat^2 + dlon^2), eps >= 0
Within(a, b, eps) ==
    (a.latitude - b.latitude) * (a.latitude - b.latitude)
    + (a.longitude - b.longitude) * (a.longitude - b.longitude) <= eps * eps

\* detect_clusters' inner loop: the neighbors of event i
Neighbors(earthquakes, i, eps) ==
    SelectSeq(Indices(Len(earthquakes)),
              LAMBDA j : /\ j # i
                         /\ ~IsNone(earthquakes[j].magnitude)
                         /\ Within(earthquakes[i], earthquakes[j], eps))

\* the magnitudes `if earthquakes[j]['magnitude']` keeps: not None and not 0
TruthyMagnitudes(earthquakes, neighbors) ==
    SelectSeq([k \in 1..Len(neighbors) |-> earthquakes[neighbors[k]].magnitude],
              LAMBDA m : ~IsNone(m) /\ Val(m) # 0)

\* detect_clusters' outer loop from event i on: [raised, clusters]; max() of an
\* empty list raises. The centre and the average magnitude (float quotients) are
\* left out of the cluster; seed names the event the cluster was found from.
RECURSIVE ClustersFrom(_, _, _, _, _, _)
ClustersFrom(i, earthquakes, eps, min_samples, visited, clusters) ==
    IF i > Len(earthquakes) THEN [raised |-> FALSE, clusters |-> clusters]
    ELSE IF i \in visited \/ IsNone(earthquakes[i].magnitude)
    THEN ClustersFrom(i + 1, earthquakes, eps, min_samples, visited, clusters)
    ELSE LET neighbors == Neighbors(earthquakes, i, eps)
             truthy == TruthyMagnitudes(earthquakes, neighbors)
         IN IF Len(neighbors) < min_samples
            THEN ClustersFrom(i + 1, earthquakes, eps, min_samples, visited, clusters)
            ELSE IF truthy = <<>>
            THEN [raised |-> TRUE, clusters |-> <<>>]
            ELSE ClustersFrom(
                     i + 1, earthquakes, eps, min_samples,
                     visited \cup {neighbors[k] : k \in 1..Len(neighbors)},
                     Append(clusters,
                            [count |-> Len(neighbors),
                             max_magnitude |-> SeqMax([k \in 1..Len(truthy) |-> Val(truthy[k])]),
                             region |-> classify_region(earthquakes[i].latitude,
                                                        earthquakes[i].longitude),
                             seed |-> i,
                             earthquakes |-> neighbors]))

detect_clusters(earthquakes, eps, min_samples) ==
    ClustersFrom(1, earthquakes, eps, min_samples, {}, <<>>)

\* ------------------------------------------------ calls of pure functions
\* A call in slot 1: its arguments, then its result.
MaxEvents == 4

\* every list of at most n elements of S
ListsOf(S, n) == UNION {[1..k -> S] : k \in 0..n}

\* the store and the clock of a server that has served nothing yet
Fresh ==
    /\ engine_config = <<>>
    /\ seismic_insights = {}
    /\ next_insight_id = 1
    /\ insight_history = <<>>
    /\ insight_triggers = <<>>
    /\ now = Epoch
    /\ api_key = FALSE

\* the call in slot p returning
Return(p, result) ==
    /\ SetReq(p, [req[p] EXCEPT !.pc = "returned", !.result = result])
    /\ UNCHANGED <<dbvars, now, api_key>>

ClusterPoints == {<<0, 0>>, <<3, 3>>, <<6, 6>>}
ClusterMagnitudes == {None, Some(0), Some(30)}
ClusterEvents ==
    {[magnitude |-> m, latitude |-> 100 + pt[1], longitude |-> 1200 + pt[2]] :
        m \in ClusterMagnitudes, pt \in ClusterPoints}

\* Scenario B: 12 events within 0.1 degrees of each other, all of magnitude 3.0
TwelveClose ==
    [k \in 1..12 |-> [magnitude |-> Some(30), latitude |-> 100, longitude |-> 1200]]

ClusterCalls ==
    {[pc |-> "call", earthquakes |-> e, eps |-> 5, min_samples |-> n, result |-> None] :
        e \in ListsOf(ClusterEvents, MaxEvents), n \in 1..3}
    \cup {[pc |-> "call", earthquakes |-> TwelveClose, eps |-> 1, min_samples |-> 3,
           result |-> None]}

InitClusters ==
    /\ Fresh
    /\ \E c \in ClusterCalls : req = [p \in Procs |-> IF p = 1 THEN c ELSE Idle]

DetectClusters(p) ==
    /\ req[p].pc = "call"
    /\ Return(p, detect_clusters(req[p].earthquakes, req[p].eps, req[p].min_samples))

SpecClusters == InitClusters /\ [][DetectClusters(1)]_vars

\* the events of cluster c: its members and the event it was found from
Members(c) == {c.earthquakes[k] : k \in 1..Len(c.earthquakes)}

\* C16: the clusters of one call are pairwise disjoint, and an event that seeded
\* or joined a cluster neither seeds nor joins a later one.
ClustersDisjoint ==
    (req[1].pc = "returned" /\ ~req[1].result.raised) =>
        LET clusters == req[1].result.clusters IN
        \A a, b \in 1..Len(clusters) :
            a < b =>
                /\ Members(clusters[a]) \cap Members(clusters[b]) = {}
                /\ clusters[b].seed \notin Members(clusters[a]) \cup {clusters[a].seed}
                /\ clusters[a].seed \notin Members(clusters[b])

\* the n events all have a magnitude and lie within eps of each other
AllClose(earthquakes, eps) ==
    \A i, j \in 1..Len(earthquakes) :
        /\ ~IsNone(earthquakes[i].magnitude)
        /\ Within(earthquakes[i], earthquakes[j], eps)

\* C17: n >= min_samples events with magnitudes, all within eps of each other,
\* give exactly one cluster, and it holds all n of them.
CloseEventsOneCluster ==
    (/\ req[1].pc = "returned"
     /\ AllClose(req[1].earthquakes, req[1].eps)
     /\ Len(req[1].earthquakes) >= req[1].min_samples) =>
        /\ ~req[1].result.raised
        /\ Len(req[1].result.clusters) = 1
        /\ req[1].result.clusters[1].count = Len(req[1].earthquakes)

\* ------------------------------------------------ AI analysis: risk scores
\* avg_magnitude in tenths; scores in tenths of a point.

\* round(n / d) for d > 0: the nearest integer, a tie going to the even one
RoundDiv(n, d) ==
    LET q == n \div d
        r == n - q * d
    IN IF 2 * r < d THEN q
       ELSE IF 2 * r > d THEN q + 1
       ELSE IF q % 2 = 0 THEN q ELSE q + 1

\* calculate_risk_scores' loop body for one region. With c = max(count, 1) the
\* four scores are kept as numerators over c: the depth score is a quotient.
RiskScore(stats) ==
    LET c == IF stats.count >= 1 THEN stats.count ELSE 1
        activity_score == Min2(stats.count, 300) * c
        magnitude_score == Min2(stats.avg_magnitude * 5, 250) * c
        significant_score == Min2(stats.significant_count * 100, 250) * c
        depth_score == (stats.very_shallow + stats.shallow) * 200
        total_score == activity_score + magnitude_score + significant_score + depth_score
    IN [score |-> RoundDiv(total_score, c),
        level |-> IF total_score >= 700 * c THEN "High"
                  ELSE IF total_score >= 500 * c THEN "Elevated"
                  ELSE IF total_score >= 300 * c THEN "Moderate"
                  ELSE "Low",
        factors |-> [activity |-> RoundDiv(activity_score, c),
                     magnitude |-> RoundDiv(magnitude_score, c),
                     significant_events |-> RoundDiv(significant_score, c),
                     shallow_depth |-> RoundDiv(depth_score, c)]]

calculate_risk_scores(regional_stats) ==
    [region \in DOMAIN regional_stats |-> RiskScore(regional_stats[region])]

\* the statistics of a region with no events
NoEvents ==
    [count |-> 0, avg_magnitude |-> 0, significant_count |-> 0,
     very_shallow |-> 0, shallow |-> 0]

\* regional statistics as the analysis computes them: the counted subsets are
\* within the count; magnitudes, and so their average, may be negative
\* a region whose total score lies just below a level's threshold
NearThreshold ==
    [count |-> 1000, avg_magnitude |-> 71, significant_count |-> 1,
     very_shallow |-> 249, shallow |-> 0]

RegionStats ==
    {NoEvents, NearThreshold} \cup
    {st \in [count : {1, 3, 400}, avg_magnitude : {-10, 0, 32, 48, 71},
             significant_count : {0, 1, 3}, very_shallow : {0, 1, 400},
             shallow : {0, 2}] :
        /\ st.very_shallow + st.shallow <= st.count
        /\ st.significant_count <= st.count}

RiskCalls ==
    {[pc |-> "call",
      regional_stats |-> [Luzon |-> st, Visayas |-> NoEvents, Mindanao |-> NoEvents],
      result |-> None] : st \in RegionStats}

InitRisk ==
    /\ Fresh
    /\ \E c \in RiskCalls : req = [p \in Procs |-> IF p = 1 THEN c ELSE Idle]

CalculateRiskScores(p) ==
    /\ req[p].pc = "call"
    /\ Return(p, calculate_risk_scores(req[p].regional_stats))

SpecRisk == InitRisk /\ [][CalculateRiskScores(1)]_vars

\* C18: every regional risk score lies in [0, 100].
RiskScoreBounded ==
    req[1].pc = "returned" =>
        \A region \in DOMAIN req[1].result :
            /\ req[1].result[region].score >= 0
            /\ req[1].result[region].score <= 1000

\* --------------------------------------------------- AI analysis: b-value
\* Magnitudes are binary floating-point numbers. A float of at least 1.0 is held
\* as a whole number of units of 2^-(Precision-1): with Precision significand bits
\* (the source's doubles have 53), the floats in [2^j, 2^(j+1)) are the multiples
\* of 2^j units. Every operation rounds its exact result to the nearest float, a
\* tie going to the even significand.
Precision == 8

RECURSIVE Pow2(_)
Pow2(j) == IF j = 0 THEN 1 ELSE 2 * Pow2(j - 1)

Unit == Pow2(Precision - 1)

\* the largest j with den * 2^j <= num, for num >= den > 0
RECURSIVE Log2From(_, _, _)
Log2From(num, den, j) == IF 2 * den > num THEN j ELSE Log2From(num, 2 * den, j + 1)

\* the float nearest to num/den units (num/den units being at least 1.0)
RoundUnits(num, den) ==
    LET quantum == Pow2(Log2From(num, den * Unit, 0))
    IN RoundDiv(num, den * quantum) * quantum

\* the float a decimal literal or JSON number of so many tenths is
Float(tenths) == RoundUnits(tenths * Unit, 10)

\* float addition and division by a count
FloatAdd(a, b) == IF a = 0 THEN b ELSE IF b = 0 THEN a ELSE RoundUnits(a + b, 1)
FloatDiv(a, n) == RoundUnits(a, n)

RECURSIVE SumFrom(_, _)
SumFrom(s, total) == IF s = <<>> THEN total ELSE SumFrom(Tail(s), FloatAdd(total, Head(s)))

RECURSIVE ExactSum(_)
ExactSum(s) == IF s = <<>> THEN 0 ELSE Head(s) + ExactSum(Tail(s))

RECURSIVE MinFrom(_, _)
MinFrom(s, best) ==
    IF s = <<>> THEN best
    ELSE MinFrom(Tail(s), IF Head(s) < best THEN Head(s) ELSE best)

\* sum() of a list of floats: added left to right, each step rounded (CPython
\* before 3.12), or rounded once from the exact total (what the compensated
\* summation of CPython 3.12 and later computes at best)
FloatSum(s, compensated) ==
    IF s = <<>> THEN 0
    ELSE IF compensated THEN RoundUnits(ExactSum(s), 1)
    ELSE SumFrom(s, 0)

\* calculate_b_value: None, or Some of the difference mean_mag - min_mag (in
\* units) that the returned number round(1.0 / difference / log(10), 2) is made from
calculate_b_value(magnitudes, compensated) ==
    IF Len(magnitudes) < 10 THEN None
    ELSE LET filtered_mags == SelectSeq(magnitudes, LAMBDA m : m >= Float(30)) IN
         IF Len(filtered_mags) < 10 THEN None
         ELSE LET mean_mag == FloatDiv(FloatSum(filtered_mags, compensated),
                                       Len(filtered_mags))
                  min_mag == MinFrom(Tail(filtered_mags), Head(filtered_mags))
              IN IF mean_mag - min_mag = 0 THEN None
                 ELSE Some(mean_mag - min_mag)

MaxSamples == 12
BValueMagnitudes == {25, 30, 31, 32, 45}

\* magnitude lists: n events of one magnitude, then k of another
BValueCalls ==
    {[pc |-> "call",
      tenths |-> [i \in 1..(n + k) |-> IF i <= n THEN a ELSE b],
      result |-> None] :
        n \in 0..MaxSamples, k \in 0..2, a \in BValueMagnitudes, b \in BValueMagnitudes}

InitBValue ==
    /\ Fresh
    /\ \E c \in BValueCalls : req = [p \in Procs |-> IF p = 1 THEN c ELSE Idle]

CalculateBValue(p) ==
    /\ req[p].pc = "call"
    /\ \E compensated \in BOOLEAN :
          Return(p, calculate_b_value([i \in 1..Len(req[p].tenths) |->
                                          Float(req[p].tenths[i])],
                                      compensated))

SpecBValue == InitBValue /\ [][CalculateBValue(1)]_vars

\* the magnitudes of at least 3.0 among those passed
AtLeastThree(tenths) == SelectSeq(tenths, LAMBDA t : t >= 30)

\* C19: the estimator returns None when fewer than 10 magnitudes are >= 3.0 and
\* when all of those are identical (their mean is their minimum); it returns a
\* number only for at least 10 such magnitudes that are not all the same.
BValueNoneWhenDegenerate ==
    req[1].pc = "returned" =>
        LET filtered == AtLeastThree(req[1].tenths)
            identical == \A i, j \in 1..Len(filtered) : filtered[i] = filtered[j]
        IN /\ Len(filtered) < 10 => IsNone(req[1].result)
           /\ identical => IsNone(req[1].result)
           /\ ~IsNone(req[1].result) => Len(filtered) >= 10 /\ ~identical

\* ------------------------------------------------------ region of an event
\* latitudes from 4.5 to 21.5 in steps of half a degree, or none
RegionLatitudes == {None} \cup {Some(45 + 5 * k) : k \in 0..34}
RegionLongitudes == {None, Some(1160), Some(1215), Some(1270)}

RegionCalls ==
    {[pc |-> "call", latitude |-> lat, longitude |-> lon, result |-> None] :
        lat \in RegionLatitudes, lon \in RegionLongitudes}

InitRegions ==
    /\ Fresh
    /\ \E c \in RegionCalls : req = [p \in Procs |-> IF p = 1 THEN c ELSE Idle]

\* the same coordinates classified by the insights engine and by the AI analysis;
\* classify_region compares the latitude as it is: None raises TypeError
ClassifyRegion(p) ==
    /\ req[p].pc = "call"
    /\ Return(p, [engine |-> _determine_region(req[p].latitude, req[p].longitude),
                  analysis |-> IF IsNone(req[p].latitude) THEN "TypeError"
                               ELSE classify_region(Val(req[p].latitude),
                                                    req[p].longitude)])

SpecRegions == InitRegions /\ [][ClassifyRegion(1)]_vars

\* C20: one rule everywhere: lat >= 15.0 Luzon, 10.0 <= lat < 15.0 Visayas,
\* lat < 10.0 Mindanao, missing lat or lon Unknown; _determine_region and
\* classify_region give that region for the same coordinates.
OneRegionRule ==
    req[1].pc = "returned" =>
        LET rule == IF IsNone(req[1].latitude) \/ IsNone(req[1].longitude) THEN "Unknown"
                    ELSE IF Val(req[1].latitude) >= 150 THEN "Luzon"
                    ELSE IF Val(req[1].latitude) >= 100 THEN "Visayas"
                    ELSE "Mindanao"
        IN /\ req[1].result.engine = rule
           /\ req[1].result.analysis = rule

\* ------------------------------------------- create_insight, read back
\* DatabaseService.get_insight_by_id
get_insight_by_id(tbl, insight_id) ==
    LET found == QueryGet(tbl, insight_id)
    IN IF found = {} THEN None ELSE Some(to_dict(CHOOSE r \in found : TRUE))

\* DatabaseService.create_insight called directly with req[p].insight_data
CreateInsight(p, db) ==
    LET r == req[p]
        insight_data == r.insight_data
    IN
    /\ r.pc = "call"
    /\ \E insight_ok, history_ok, config_ok, counter_ok \in db :
         LET insight == NewInsight(next_insight_id, insight_data, now)
             config == ConfigRow(engine_config)
             returned_id == insight_ok /\ (~config_ok \/ counter_ok)
         IN
         /\ IF insight_ok
            THEN /\ seismic_insights' = seismic_insights \cup {insight}
                 /\ next_insight_id' = next_insight_id + 1
                 /\ insight_history' =
                        record_insight_history(
                            insight_history, history_ok,
                            HistoryRow(insight.id, "created", None,
                                       Some(to_dict(insight)),
                                       CreatedReason(Get(insight_data,
                                                         "generated_by_model",
                                                         Some("AI"))),
                                       None))
                 /\ engine_config' =
                        IF config_ok /\ counter_ok
                        THEN WithRow(engine_config,
                                     [config EXCEPT !.total_insights_generated =
                                          config.total_insights_generated + 1])
                        ELSE IF config_ok THEN get_engine_config(engine_config)
                        ELSE engine_config
            ELSE UNCHANGED <<engine_config, seismic_insights, next_insight_id,
                             insight_history>>
         /\ SetReq(p, [r EXCEPT !.pc = "created",
                                !.insight_id = IF returned_id THEN Some(insight.id)
                                               ELSE None])
    /\ UNCHANGED <<insight_triggers, now, api_key>>

\* DatabaseService.get_insight_by_id on the id create_insight returned
GetInsightById(p) ==
    /\ req[p].pc = "created"
    /\ ~IsNone(req[p].insight_id)
    /\ Return(p, get_insight_by_id(seismic_insights, Val(req[p].insight_id)))

PayloadSupportingData ==
    {Py("dict", <<>>),
     Py("dict", << <<Py("str", "count"), Py("int", 3)>> >>),
     Py("dict", << <<Py("str", "magnitudes"), Py("list", <<Py("int", 52), Py("int", 47)>>)>> >>),
     Py("dict", << <<Py("int", 1), Py("str", "first")>> >>),
     Py("dict", << <<Py("str", "range"), Py("tuple", <<Py("int", 40), Py("int", 60)>>)>> >>)}
InsightPayloads ==
    {[insight_type |-> "anomaly",
      category |-> "unusual_shallow_strong",
      region |-> Some("Luzon"),
      latitude |-> lat,
      longitude |-> lon,
      confidence_score |-> 85,
      severity_level |-> sev,
      supporting_data |-> sd,
      earthquake_count |-> 1,
      generated_by_model |-> Some("model")] :
        lat \in {None, Some(0), Some(130)}, lon \in {None, Some(0), Some(1210)},
        sev \in {"high", "moderate"}, sd \in PayloadSupportingData}
InitRoundTrip ==
    /\ Fresh
    /\ \E d \in InsightPayloads :
          req = [p \in Procs |->
                    IF p = 1
                    THEN [pc |-> "call", insight_data |-> d, insight_id |-> None,
                          result |-> None]
                    ELSE Idle]
NextRoundTrip ==
    \/ CreateInsight(1, {TRUE})
    \/ GetInsightById(1)
SpecRoundTrip == InitRoundTrip /\ [][NextRoundTrip]_vars

\* C21: the dictionary get_insight_by_id returns for a created insight
\* reproduces the latitude and longitude of the payload whenever both were
\* supplied, zero included.
CoordinatesReadBack ==
    LET r == req[1]
        d == r.insight_data
    IN r.pc = "returned" /\ ~IsNone(r.result)
       /\ ~IsNone(d.latitude) /\ ~IsNone(d.longitude) =>
         Val(r.result).coordinates = Some([latitude |-> Val(d.latitude),
                                           longitude |-> Val(d.longitude)])

\* C22: run_analysis on events that include one with a null magnitude is not
\* answered non-success.
NullMagnitudeTolerated ==
    [][\A p \in Procs :
          req'[p] # req[p] /\ RunAnalysis(p, "null_magnitude", {TRUE}) =>
              ~(req'[p].pc = "done" /\ ~req'[p].success)]_vars

\* C23: a call on exactly min_samples events with magnitudes, all within eps
\* of each other, returns a cluster (the seed counts towards min_samples).
MinSamplesGroupClusters ==
    (/\ req[1].pc = "returned"
     /\ "min_samples" \in DOMAIN req[1]
     /\ Len(req[1].earthquakes) = req[1].min_samples
     /\ AllClose(req[1].earthquakes, req[1].eps)) =>
        /\ ~req[1].result.raised
        /\ req[1].result.clusters # <<>>

\* ------------------------------------------------------ detect_sequences
\* the sort key x['magnitude'] or 0
SortKey(eq) == IF IsNone(eq.magnitude) THEN 0 ELSE Val(eq.magnitude)

\* sorted(earthquakes, key=..., reverse=True) as the list of positions: larger
\* keys first, equal keys in their original order
SortedByMagnitude(earthquakes) ==
    LET n == Len(earthquakes)
        Before(j, i) ==
            \/ SortKey(earthquakes[j]) > SortKey(earthquakes[i])
            \/ SortKey(earthquakes[j]) = SortKey(earthquakes[i]) /\ j < i
        Rank(i) == 1 + Cardinality({j \in 1..n : Before(j, i)})
    IN [k \in 1..n |-> CHOOSE i \in 1..n : Rank(i) = k]

\* earthquakes.index(mainshock): the first position holding an equal event
IndexOf(earthquakes, eq) ==
    CHOOSE i \in 1..Len(earthquakes) :
        /\ earthquakes[i] = eq
        /\ \A j \in 1..(i - 1) : earthquakes[j] # eq

\* abs((eq_time - mainshock_time).days): timedelta.days is the floor of the
\* difference in days; times are in hours
TimeDiffDays(eq, mainshock) ==
    LET days == (eq.time - mainshock.time) \div 24
    IN IF days < 0 THEN 0 - days ELSE days

\* the aftershock criteria of detect_sequences
IsAftershock(eq, mainshock, time_window_days, distance_threshold) ==
    /\ TimeDiffDays(eq, mainshock) <= time_window_days
    /\ Within(mainshock, eq, distance_threshold)
    /\ Val(eq.magnitude) < Val(mainshock.magnitude)

\* detect_sequences' inner loop: the positions of the aftershocks of mainshock_idx
Aftershocks(earthquakes, mainshock_idx, processed, time_window_days, distance_threshold) ==
    SelectSeq(Indices(Len(earthquakes)),
              LAMBDA i : /\ i # mainshock_idx
                         /\ ~IsNone(earthquakes[i].magnitude)
                         /\ i \notin processed
                         /\ IsAftershock(earthquakes[i], earthquakes[mainshock_idx],
                                         time_window_days, distance_threshold))

\* max(aftershocks, key=lambda x: x['magnitude'] or 0): the first of the largest
LargestAftershock(earthquakes, aftershocks) ==
    CHOOSE k \in 1..Len(aftershocks) :
        /\ \A l \in 1..Len(aftershocks) :
              SortKey(earthquakes[aftershocks[l]]) <= SortKey(earthquakes[aftershocks[k]])
        /\ \A l \in 1..(k - 1) :
              SortKey(earthquakes[aftershocks[l]]) < SortKey(earthquakes[aftershocks[k]])

\* the number of candidates detect_sequences looks at: sorted_eqs[:10]
TopCandidates == 10

\* detect_sequences' outer loop from the k-th candidate on. A sequence holds the
\* mainshock, aftershock_count, largest_aftershock and duration_days; mainshock_idx
\* and aftershocks (positions) name the events it was built from.
RECURSIVE SequencesFrom(_, _, _, _, _, _, _)
SequencesFrom(k, sorted_eqs, earthquakes, time_window_days, distance_threshold, processed, sequences) ==
    IF k > Len(sorted_eqs) \/ k > TopCandidates THEN sequences
    ELSE LET mainshock == earthquakes[sorted_eqs[k]]
             mainshock_idx == IndexOf(earthquakes, mainshock)
             aftershocks == Aftershocks(earthquakes, mainshock_idx, processed,
                                        time_window_days, distance_threshold)
             Skip == SequencesFrom(k + 1, sorted_eqs, earthquakes, time_window_days,
                                   distance_threshold, processed, sequences)
         IN IF IsNone(mainshock.magnitude) \/ Val(mainshock.magnitude) < 40 THEN Skip
            ELSE IF mainshock_idx \in processed THEN Skip
            ELSE IF Len(aftershocks) < 3 THEN Skip
            ELSE SequencesFrom(
                     k + 1, sorted_eqs, earthquakes, time_window_days, distance_threshold,
                     processed \cup {mainshock_idx},
                     Append(sequences,
                            [mainshock |-> mainshock,
                             mainshock_idx |-> mainshock_idx,
                             aftershock_count |-> Len(aftershocks),
                             largest_aftershock |->
                                 earthquakes[aftershocks[LargestAftershock(earthquakes,
                                                                           aftershocks)]],
                             duration_days |-> time_window_days,
                             aftershocks |-> aftershocks]))

detect_sequences(earthquakes, time_window_days, distance_threshold) ==
    SequencesFrom(1, SortedByMagnitude(earthquakes), earthquakes, time_window_days,
                  distance_threshold, {}, <<>>)

MaxSequenceEvents == 5

\* events around a magnitude 5.0 mainshock at Epoch: [magnitude, time, latitude, longitude]
SequenceEvents ==
    {[magnitude |-> Some(50), time |-> Epoch, latitude |-> 100, longitude |-> 1200],
     [magnitude |-> Some(45), time |-> Epoch, latitude |-> 100, longitude |-> 1200],
     [magnitude |-> Some(30), time |-> Epoch + 1, latitude |-> 100, longitude |-> 1200],
     [magnitude |-> Some(30), time |-> Epoch + (30 * 24 + 12), latitude |-> 100,
      longitude |-> 1200],
     [magnitude |-> Some(30), time |-> Epoch - (30 * 24 + 12), latitude |-> 100,
      longitude |-> 1200],
     [magnitude |-> Some(30), time |-> Epoch, latitude |-> 150, longitude |-> 1200],
     [magnitude |-> None, time |-> Epoch, latitude |-> 100, longitude |-> 1200]}

\* the events of a feed carry distinct ids
WithIds(events) ==
    [i \in 1..Len(events) |->
        [id |-> i, magnitude |-> events[i].magnitude, time |-> events[i].time,
         latitude |-> events[i].latitude, longitude |-> events[i].longitude]]

\* ten isolated magnitude 6.0 events, then a magnitude 5.0 event with three aftershocks
ElevenLarger ==
    [k \in 1..14 |->
        IF k <= 10
        THEN [magnitude |-> Some(60), time |-> Epoch, latitude |-> 100 + 20 * k,
              longitude |-> 1000]
        ELSE IF k = 11
        THEN [magnitude |-> Some(50), time |-> Epoch, latitude |-> 100, longitude |-> 1200]
        ELSE [magnitude |-> Some(30), time |-> Epoch + 1, latitude |-> 100,
              longitude |-> 1200]]

InitSequences ==
    /\ Fresh
    /\ \E e \in ListsOf(SequenceEvents, MaxSequenceEvents) \cup {ElevenLarger} :
          req = [p \in Procs |->
                    IF p = 1
                    THEN [pc |-> "call", earthquakes |-> WithIds(e),
                          time_window_days |-> 30, distance_threshold |-> 10,
                          result |-> None]
                    ELSE Idle]

DetectSequences(p) ==
    /\ req[p].pc = "call"
    /\ Return(p, detect_sequences(req[p].earthquakes, req[p].time_window_days,
                                  req[p].distance_threshold))

SpecSequences == InitSequences /\ [][DetectSequences(1)]_vars

\* C24: the time test is symmetric: of two events with magnitudes that differ
\* only in lying the same time before and after the mainshock of a sequence,
\* one is an aftershock of it exactly if the other is.
TimeTestSymmetric ==
    req[1].pc = "returned" =>
        \A s \in 1..Len(req[1].result) :
            LET seq == req[1].result[s]
                eqs == req[1].earthquakes
                members == {seq.aftershocks[k] : k \in 1..Len(seq.aftershocks)}
            IN \A i, j \in 1..Len(eqs) :
                  (/\ ~IsNone(eqs[i].magnitude)
                   /\ eqs[i].magnitude = eqs[j].magnitude
                   /\ eqs[i].latitude = eqs[j].latitude
                   /\ eqs[i].longitude = eqs[j].longitude
                   /\ eqs[i].time - seq.mainshock.time = seq.mainshock.time - eqs[j].time) =>
                      (i \in members <=> j \in members)

\* the aftershock criteria as stated: |time difference| <= time_window_days,
\* distance <= distance_threshold, magnitude below the mainshock's
Qualifies(eq, mainshock, time_window_days, distance_threshold) ==
    /\ ~IsNone(eq.magnitude)
    /\ eq.time - mainshock.time <= time_window_days * 24
    /\ mainshock.time - eq.time <= time_window_days * 24
    /\ Within(mainshock, eq, distance_threshold)
    /\ Val(eq.magnitude) < Val(mainshock.magnitude)

\* C25: an event is the mainshock of a returned sequence exactly if it is among
\* the ten largest, has magnitude at least 4.0 and has at least three
\* qualifying aftershocks; no event is the mainshock of two sequences.
SequenceIffQualifying ==
    req[1].pc = "returned" =>
        LET eqs == req[1].earthquakes
            sorted_eqs == SortedByMagnitude(eqs)
            top == {sorted_eqs[k] : k \in 1..Min2(TopCandidates, Len(eqs))}
            Emitted(i) == {s \in 1..Len(req[1].result) : req[1].result[s].mainshock_idx = i}
            qualifying(i) ==
                {j \in 1..Len(eqs) :
                    j # i /\ Qualifies(eqs[j], eqs[i], req[1].time_window_days,
                                       req[1].distance_threshold)}
        IN \A i \in 1..Len(eqs) :
              /\ Cardinality(Emitted(i)) <= 1
              /\ Emitted(i) # {} <=>
                    /\ i \in top
                    /\ ~IsNone(eqs[i].magnitude) /\ Val(eqs[i].magnitude) >= 40
                    /\ Cardinality(qualifying(i)) >= 3

\* C26: the level returned with a score is the one the score determines: High
\* from 70, Elevated from 50, Moderate from 30, Low below.
LevelFollowsScore ==
    req[1].pc = "returned" /\ "regional_stats" \in DOMAIN req[1] =>
        \A region \in DOMAIN req[1].result :
            LET risk == req[1].result[region]
            IN risk.level = IF risk.score >= 700 THEN "High"
                            ELSE IF risk.score >= 500 THEN "Elevated"
                            ELSE IF risk.score >= 300 THEN "Moderate"
                            ELSE "Low"

\* C27: run_analysis on a region's twelve events of the last seven days, none in
\* the seven days before, is not answered non-success.
SwarmAfterQuietWeekReported ==
    [][\A p \in Procs :
          req'[p] # req[p] /\ RunAnalysis(p, "swarm", {TRUE}) =>
              ~(req'[p].pc = "done" /\ ~req'[p].success)]_vars

\* ------------------------------------- statistics and cleanup of insights
\* DatabaseService.get_insights_statistics
get_insights_statistics(tbl) ==
    LET Count(P(_)) == Cardinality({r \in tbl : P(r)})
    IN [total |-> Cardinality(tbl),
        active |-> Count(LAMBDA r : r.status = "active"),
        updated |-> Count(LAMBDA r : r.status = "updated"),
        invalidated |-> Count(LAMBDA r : r.status = "invalidated"),
        by_type |->
            [insight_type \in {"risk", "pattern", "anomaly", "correlation", "prediction"} |->
                Count(LAMBDA r : r.insight_type = insight_type /\ r.status = "active")],
        by_severity |->
            [severity \in {"low", "moderate", "high", "critical"} |->
                Count(LAMBDA r : r.severity_level = severity /\ r.status = "active")]]

\* DatabaseService.cleanup_old_insights: the bulk delete of the invalidated
\* insights last updated before the cutoff; insight_history is not touched
CleanupOldInsights(keep_days, db) ==
    /\ \E commit_ok \in db :
         LET cutoff_date == now - keep_days * 24
             old == {r \in seismic_insights :
                        r.status = "invalidated" /\ r.updated_at < cutoff_date}
         IN seismic_insights' = IF commit_ok THEN seismic_insights \ old
                                ELSE seismic_insights
    /\ UNCHANGED <<engine_config, next_insight_id, insight_history, insight_triggers,
                   now, api_key, req>>

\* The stored insights under create (by a run), update with a status among the
\* updates, invalidate and cleanup, as time passes
StatusUpdates == {[status |-> "evolved"], [status |-> "active", severity_level |-> "high"]}

NextStore ==
    \/ Tick
    \/ RunAnalysis(1, "strong_shallow", {TRUE})
    \/ StoreInsight(1, {TRUE})
    \/ FinishRun(1, {TRUE})
    \/ \E i \in StoredIds, u \in StatusUpdates : UpdateInsight(i, u, None, {TRUE})
    \/ \E i \in StoredIds : InvalidateInsight(i, None, {TRUE})
    \/ \E k \in {0, 30} : CleanupOldInsights(k, {TRUE})

SpecStore == Init /\ [][NextStore]_vars

\* C28: every stored insight has status active, updated or invalidated, and
\* get_insights_statistics reports total = active + updated + invalidated.
StatusesPartitionInsights ==
    /\ \A r \in seismic_insights : r.status \in {"active", "updated", "invalidated"}
    /\ LET statistics == get_insights_statistics(seismic_insights)
       IN statistics.total
          = statistics.active + statistics.updated + statistics.invalidated

\* C28's case: an insight updated with a status among the updates, another
\* still active, and the update recorded
UpdatedWithStatusKey ==
    /\ \E r \in seismic_insights : r.status = "updated" /\ r.version > 1
    /\ \E r \in seismic_insights : r.status = "active"
    /\ \E h \in 1..Len(insight_history) : insight_history[h].action = "updated"

\* C29: every history record references an insight that still exists.
NoOrphanHistory ==
    \A h \in 1..Len(insight_history) :
        \E r \in seismic_insights : r.id = insight_history[h].insight_id

\* C30: total_insights_generated is the number of insights create_insight has
\* persisted, and a run's insights_generated the number that run persisted.
CounterCountsPersisted ==
    /\ ConfigRow(engine_config).total_insights_generated = Cardinality(seismic_insights)
    /\ \A p \in Procs : req[p].insights_generated = req[p].persisted

====
